---- MODULE Spec2Model ----
(***************************************************************************)
(* Real-time taxi telemetry pipeline: the Ingestion Producer               *)
(* (src/producer.py), the Enrichment Stage                                 *)
(* (src/lambda_functions/enrich_trip_data.py) and the Fare & Persistence   *)
(* Stage (src/lambda_functions/process_and_store.py).                      *)
(*                                                                         *)
(* Each stage is a sequential handler.  A handler is modelled as a small   *)
(* program counter machine whose steps are cut at the calls to external    *)
(* services (geocoding, queue, primary store, analytics sink, stream);     *)
(* every such call either succeeds or raises, chosen nondeterministically. *)
(* Numbers are integers in hundredths (12.95 is 1295).                     *)
(***************************************************************************)
EXTENDS Integers, Sequences, FiniteSets, TLC

\* ------------------------------------------------------------------ bounds
\* Largest number of queue records in one Fare & Persistence invocation.
MaxBatch == 3
\* Largest number of stream records in one Enrichment invocation.
MaxMsgs == 3
\* Largest number of data rows in the producer's source file.
MaxRows == 3
\* Largest BATCH_SIZE the producer is configured with.
MaxBatchSize == 2

\* ------------------------------------------------------------ JSON values
\* A JSON / CSV value: k is its kind, s its text (kind "str"), n its number
\* in hundredths (kind "num") or 0/1 (kind "bool").  Absent stands for a key
\* that is not in the dict, Null for JSON null / Python None.
Absent == [k |-> "absent", s |-> "", n |-> 0]
Null == [k |-> "null", s |-> "", n |-> 0]
Str(s) == [k |-> "str", s |-> s, n |-> 0]
Num(n) == [k |-> "num", s |-> "", n |-> n]
Bool(b) == [k |-> "bool", s |-> "", n |-> IF b THEN 1 ELSE 0]

\* The texts Python's float() parses, with the number each one gives (in
\* hundredths); every other text of the model raises ValueError.
FloatText ==
  ("0" :> 0) @@ ("0.0" :> 0) @@ ("1" :> 100) @@ ("2" :> 200) @@ ("2.5" :> 250)
  @@ ("8.2" :> 820) @@ ("10" :> 1000) @@ ("12.9" :> 1290) @@ ("12.95" :> 1295)
  @@ ("77.6" :> 7760) @@ ("77.65" :> 7765)

\* The texts Python's int() parses; "2.5", "8.2", ... raise ValueError.
IntText == ("0" :> 0) @@ ("1" :> 1) @@ ("2" :> 2) @@ ("10" :> 10)

\* float(x): ok is FALSE where Python raises ValueError or TypeError.
Float(x) ==
  CASE x.k = "num" -> [ok |-> TRUE, n |-> x.n]
    [] x.k = "bool" -> [ok |-> TRUE, n |-> 100 * x.n]
    [] x.k = "str" /\ x.s \in DOMAIN FloatText -> [ok |-> TRUE, n |-> FloatText[x.s]]
    [] OTHER -> [ok |-> FALSE, n |-> 0]

\* int(x): a float is truncated, a text must be an integer literal.
ToInt(x) ==
  CASE x.k = "num" -> [ok |-> TRUE, n |-> x.n \div 100]
    [] x.k = "bool" -> [ok |-> TRUE, n |-> x.n]
    [] x.k = "str" /\ x.s \in DOMAIN IntText -> [ok |-> TRUE, n |-> IntText[x.s]]
    [] OTHER -> [ok |-> FALSE, n |-> 0]

\* Decimal(str(x)): str(True) is "True" and str(None) is "None", which
\* Decimal rejects (decimal.InvalidOperation) although float(True) is 1.0.
ToDecimal(x) ==
  CASE x.k = "num" -> [ok |-> TRUE, n |-> x.n]
    [] x.k = "str" /\ x.s \in DOMAIN FloatText -> [ok |-> TRUE, n |-> FloatText[x.s]]
    [] OTHER -> [ok |-> FALSE, n |-> 0]

\* dict.get(key, default) and dict.setdefault(key, default) on one value.
Get(x, default) == IF x.k = "absent" THEN default ELSE x

\* Python truthiness of a value (`not x` is its negation).
Truthy(x) ==
  CASE x.k = "str" -> x.s # ""
    [] x.k = "num" -> x.n # 0
    [] x.k = "bool" -> x.n = 1
    [] OTHER -> FALSE

\* ------------------------------------------------------------ trip records
TripFields ==
  {"trip_id", "taxi_id", "pickup_datetime", "pickup_lat", "pickup_long",
   "drop_lat", "drop_long", "distance_km", "latitude", "longitude",
   "zone_name", "passenger_count", "fare_amount", "extra_charges",
   "tip_amount", "tolls_amount", "total_amount", "payment_type", "extra"}

\* The trip of the specification's end-to-end scenario, as the Enrichment
\* Stage queues it (optional billing fields absent).
BaseTrip(tid) ==
  [f \in TripFields |->
     CASE f = "trip_id" -> Str(tid)
       [] f = "taxi_id" -> Str("TX1")
       [] f = "pickup_datetime" -> Str("2024-01-01T10:00:00")
       [] f \in {"pickup_lat", "latitude"} -> Num(1290)
       [] f \in {"pickup_long", "longitude"} -> Num(7760)
       [] f = "drop_lat" -> Num(1295)
       [] f = "drop_long" -> Num(7765)
       [] f = "distance_km" -> Str("8.2")
       [] f = "zone_name" -> Str("Downtown Plaza")
       [] OTHER -> Absent]

\* A trip as the producer emits it: every billing field present, an airport
\* pickup, upstream fare_amount and total_amount carried along.
FullTrip(tid) ==
  [BaseTrip(tid) EXCEPT
     !["distance_km"] = Num(1000), !["zone_name"] = Str("Airport Terminal"),
     !["passenger_count"] = Num(200), !["fare_amount"] = Num(100),
     !["extra_charges"] = Num(100), !["tip_amount"] = Str("2.5"),
     !["tolls_amount"] = Num(0), !["total_amount"] = Num(200),
     !["payment_type"] = Str("CARD")]

With(td, f, v) == [td EXCEPT ![f] = v]

\* The dict with no key.
NoTrip == [f \in TripFields |-> Absent]

\* ------------------------------------- Fare & Persistence: pure functions
\* 'Airport' in zone_name, for the zone labels of the model.
AirportZones == {"Airport Terminal", "City Airport Road"}

\* round(x, 2) of a number given in thousandths, as hundredths.  The fares of
\* the model have no digit beyond the second decimal, so no tie arises.
Round2(m) == (m + 5) \div 10

\* calculate_fare with the surcharge test zone_name == 'Airport' in place of
\* the containment test.
calculate_fare_ExactZone(distance_km, zone_name) ==
  LET d == Float(distance_km)
      distance == IF d.ok THEN d.n ELSE 0
      fare == 50000 + distance * 185
      surcharge == IF zone_name = Str("Airport") THEN 100000 ELSE 0
  IN Round2(fare + surcharge)

\* calculate_fare(distance_km, zone_name), in hundredths.  A distance that
\* float() rejects (None included) counts as 0.0.
calculate_fare(distance_km, zone_name) ==
  LET d == Float(distance_km)
      distance == IF d.ok THEN d.n ELSE 0
      fare == 50000 + distance * 185
      surcharge == IF Truthy(zone_name) /\ zone_name.s \in AirportZones
                   THEN 100000 ELSE 0
  IN Round2(fare + surcharge)

required_fields ==
  <<"trip_id", "taxi_id", "pickup_datetime", "pickup_lat", "pickup_long",
    "drop_lat", "drop_long", "distance_km">>

numeric_fields ==
  <<"pickup_lat", "pickup_long", "drop_lat", "drop_long", "distance_km">>

\* The missing-field test with `field not in trip_data` alone: a null value
\* counts as present.
IsMissing_AbsentOnly(td, f) == td[f].k = "absent"

\* Line 54: the field is not in the dict, or is None.
IsMissing(td, f) == td[f].k \in {"absent", "null"}

\* validate_trip_data(trip_data): ok, the missing fields in the order of
\* required_fields, and the first numeric field float() rejects ("" if none).
validate_trip_data(td) ==
  LET missing_fields == SelectSeq(required_fields, LAMBDA f : IsMissing(td, f))
      bad == SelectSeq(numeric_fields, LAMBDA f : ~Float(td[f]).ok)
  IN IF missing_fields # <<>>
       THEN [ok |-> FALSE, missing |-> missing_fields, invalid |-> ""]
     ELSE IF bad # <<>>
       THEN [ok |-> FALSE, missing |-> <<>>, invalid |-> Head(bad)]
     ELSE [ok |-> TRUE, missing |-> <<>>, invalid |-> ""]

\* ------------------------------------ Fare & Persistence: record handling
SinkAliases ==
  {"dropoff_datetime", "pickup_latitude", "pickup_longitude",
   "dropoff_latitude", "dropoff_longitude"}

SinkFields == TripFields \cup SinkAliases

\* The item of a record that never reaches the primary store.
NoItem ==
  [trip_id |-> Absent, taxi_id |-> Absent, pickup_datetime |-> Absent,
   pickup_lat |-> 0, pickup_long |-> 0, drop_lat |-> 0, drop_long |-> 0,
   distance_km |-> 0, zone_name |-> Absent, fare_amount |-> 0,
   passenger_count |-> 0, extra_charges |-> 0, tip_amount |-> 0,
   tolls_amount |-> 0, total_amount |-> 0, payment_type |-> Absent]

\* Steps 2 and 3 of the handler: the recomputed fare replaces any upstream
\* fare_amount, then setdefault fills the optional fields that are absent.
SetDefaults(td, fare) ==
  [td EXCEPT
     !["fare_amount"] = Num(fare),
     !["passenger_count"] = Get(@, Num(0)),
     !["extra_charges"] = Get(@, Num(0)),
     !["tip_amount"] = Get(@, Num(0)),
     !["tolls_amount"] = Get(@, Num(0)),
     !["payment_type"] = Get(@, Str("CASH"))]

\* Step 6: the analytics copy, with the alias fields set by setdefault.
firehose_data(td) ==
  [f \in SinkFields |->
     CASE f \in TripFields -> td[f]
       [] f = "dropoff_datetime" -> Null
       [] f = "pickup_latitude" -> td["pickup_lat"]
       [] f = "pickup_longitude" -> td["pickup_long"]
       [] f = "dropoff_latitude" -> td["drop_lat"]
       [] f = "dropoff_longitude" -> td["drop_long"]]

\* The total with setdefault in place of the assignment of line 124: an
\* upstream total_amount is kept.
TotalAmount_Upstream(d, fare) ==
  LET up == Float(d["total_amount"])
  IN IF up.ok THEN up.n
     ELSE Round2((fare + Float(d["extra_charges"]).n + Float(d["tip_amount"]).n
                  + Float(d["tolls_amount"]).n) * 10)

\* Step 4 (lines 122-124): the total of the recomputed fare and the three
\* charges of the record after the defaults, rounded to two decimals.
TotalAmount(d, fare) ==
  Round2((fare + Float(d["extra_charges"]).n + Float(d["tip_amount"]).n
          + Float(d["tolls_amount"]).n) * 10)

\* Steps 2 to 4 for a record that passed validation: fare, defaults, total
\* and the primary-store item.  float(), int() and Decimal() raise on values
\* they reject; the handler's generic except clause turns that into
\* "exception".
Compute(td) ==
  LET fare == calculate_fare(td["distance_km"], td["zone_name"])
      zone_ok == ~Truthy(td["zone_name"]) \/ td["zone_name"].k = "str"
      d == SetDefaults(td, fare)
      extra == Float(d["extra_charges"])
      tip == Float(d["tip_amount"])
      tolls == Float(d["tolls_amount"])
      total == TotalAmount(d, fare)
      t == [d EXCEPT !["total_amount"] = Num(total)]
      lat == ToDecimal(t["pickup_lat"])
      long == ToDecimal(t["pickup_long"])
      dlat == ToDecimal(t["drop_lat"])
      dlong == ToDecimal(t["drop_long"])
      dist == ToDecimal(t["distance_km"])
      pax == ToInt(t["passenger_count"])
      dextra == ToDecimal(t["extra_charges"])
      dtip == ToDecimal(t["tip_amount"])
      dtolls == ToDecimal(t["tolls_amount"])
      raised == \/ ~zone_ok
                \/ ~extra.ok \/ ~tip.ok \/ ~tolls.ok
                \/ t["trip_id"].k = "absent"
                \/ ~lat.ok \/ ~long.ok \/ ~dlat.ok \/ ~dlong.ok \/ ~dist.ok
                \/ ~pax.ok \/ ~dextra.ok \/ ~dtip.ok \/ ~dtolls.ok
  IN IF raised
       THEN [outcome |-> "exception", trip_data |-> NoTrip, item |-> NoItem]
     ELSE [outcome |-> "ready", trip_data |-> t,
           item |->
             [trip_id |-> t["trip_id"],
              taxi_id |-> Get(t["taxi_id"], Str("")),
              pickup_datetime |-> Get(t["pickup_datetime"], Str("")),
              pickup_lat |-> lat.n, pickup_long |-> long.n,
              drop_lat |-> dlat.n, drop_long |-> dlong.n,
              distance_km |-> dist.n,
              zone_name |-> Get(t["zone_name"], Str("")),
              fare_amount |-> fare,
              passenger_count |-> pax.n,
              extra_charges |-> dextra.n, tip_amount |-> dtip.n,
              tolls_amount |-> dtolls.n, total_amount |-> total,
              payment_type |-> Get(t["payment_type"], Str("CASH"))]]

\* The handler without the validation gate of step 1: every decoded record
\* goes on to the fare computation.
Prepare_NoGate(rec) ==
  CASE rec.json = "bad" ->
         [outcome |-> "json_error", trip_data |-> NoTrip, item |-> NoItem]
    [] rec.json = "nondict" ->
         [outcome |-> "exception", trip_data |-> NoTrip, item |-> NoItem]
    [] OTHER -> Compute(rec.data)

\* Lines 96-145 on one queue record, up to the first external call.
\* json: "bad" is a body json.loads rejects, "nondict" a body that decodes
\* to a list (trip_data.get raises AttributeError), "dict" a JSON object.
Prepare(rec) ==
  CASE rec.json = "bad" ->
         [outcome |-> "json_error", trip_data |-> NoTrip, item |-> NoItem]
    [] rec.json = "nondict" ->
         [outcome |-> "exception", trip_data |-> NoTrip, item |-> NoItem]
    [] ~validate_trip_data(rec.data).ok ->
         [outcome |-> "invalid", trip_data |-> NoTrip, item |-> NoItem]
    [] OTHER -> Compute(rec.data)

\* ------------------------------------------------------------ the inputs
Body(td) == [json |-> "dict", data |-> td]

\* Queue records of one Fare & Persistence batch.
FareRecords ==
  { [json |-> "bad", data |-> NoTrip],
    [json |-> "nondict", data |-> NoTrip],
    Body(BaseTrip("T1")),
    Body(FullTrip("T2")),
    Body(With(BaseTrip("T1"), "trip_id", Absent)),
    Body(With(FullTrip("T2"), "trip_id", Null)),
    Body(With(BaseTrip("T3"), "trip_id", Str(""))),
    Body(With(BaseTrip("T1"), "pickup_lat", Str("abc"))),
    Body(With(FullTrip("T2"), "tip_amount", Str("abc"))),
    Body(With(BaseTrip("T1"), "drop_lat", Bool(TRUE))) }

BoundedSeq(S, n) == UNION {[1..k -> S] : k \in 1..n}

\* os.environ.get(NAME): unset, set to the empty string, or set.
EnvValues == {Null, Str(""), Str("configured")}

\* ------------------------------------------- Enrichment: record handling
\* Lines 31-38 on one stream record, up to the geocoding call.  enc tells
\* whether base64 and UTF-8 decoding succeed, json is as for the queue
\* records.  trip_data['longitude'] raises KeyError when the key is absent
\* and float() raises on None and on text that is no number.
EPrepare(rec) ==
  CASE rec.enc # "ok" -> "exception"
    [] rec.json = "bad" -> "json_error"
    [] rec.json = "nondict" -> "exception"
    [] rec.data["longitude"].k = "absent" -> "exception"
    [] ~Float(rec.data["longitude"]).ok -> "exception"
    [] rec.data["latitude"].k = "absent" -> "exception"
    [] ~Float(rec.data["latitude"]).ok -> "exception"
    [] OTHER -> "ready"

\* The zone without the fallback of line 53: an empty result list leaves
\* the empty zone name.
ZoneOf_NoFallback(results) == IF results # <<>> THEN Head(results) ELSE ""

\* Lines 47-53: the label of the first candidate, "Unknown" when the result
\* list is empty.
ZoneOf(results) == IF results # <<>> THEN Head(results) ELSE "Unknown"

Kinesis(td) == [enc |-> "ok", json |-> "dict", data |-> td]

\* A trip as the producer puts it on the stream.
StreamTrip(tid) == With(FullTrip(tid), "zone_name", Str(""))

\* Stream records of one Enrichment invocation.
EnrichRecords ==
  { [enc |-> "bad_base64", json |-> "bad", data |-> NoTrip],
    [enc |-> "ok", json |-> "bad", data |-> NoTrip],
    [enc |-> "ok", json |-> "nondict", data |-> NoTrip],
    Kinesis(StreamTrip("T1")),
    Kinesis(StreamTrip("T2")),
    Kinesis(With(StreamTrip("T3"), "longitude", Absent)),
    Kinesis(With(StreamTrip("T4"), "latitude", Str("abc"))) }

\* What search_place_index_for_position answers when it does not raise: the
\* labels of the candidates, best first.
GeoResults ==
  { <<>>, <<"Downtown Plaza">>, <<"Airport Terminal", "Downtown Plaza">> }

\* --------------------------------------------------- Producer: row handling
\* str.strip() leaves nothing of these texts.
BlankTexts == {"", " "}

\* The zone text as the source file has it, quote characters kept.
StripQuotes_Keep(s) == s

\* str.strip('"') of the zone texts of the model.
StripQuotes(s) == IF s = "\"Downtown Plaza\"" THEN "Downtown Plaza" ELSE s

FloatColumns ==
  <<"latitude", "longitude", "pickup_lat", "pickup_long", "drop_lat",
    "drop_long", "distance_km">>

\* Lines 28-50 on one row of csv.DictReader.  A column the header lacks is
\* Absent, a column a short row leaves out is None (DictReader's restval).
\*   "skip":  the admission rule rejects the row (line 30)
\*   "error": an exception leaves the for loop (AttributeError of
\*            None.strip, ValueError / TypeError of float and int, KeyError
\*            of row['trip_id'])
\*   "ok":    the converted row is appended to records_batch
ReadRow(row) ==
  LET pd == row["pickup_datetime"]
      zero == Num(0)
      floats == [c \in {FloatColumns[i] : i \in 1..Len(FloatColumns)} |->
                   Float(Get(row[c], zero))]
      pax == ToInt(Get(row["passenger_count"], zero))
      fare == Float(Get(row["fare_amount"], zero))
      extra == Float(Get(row["extra_charges"], Get(row["extra"], zero)))
      tip == Float(Get(row["tip_amount"], zero))
      tolls == Float(Get(row["tolls_amount"], zero))
      total == Float(Get(row["total_amount"], zero))
      zone == Get(row["zone_name"], Str(""))
      raised == \/ \E c \in DOMAIN floats : ~floats[c].ok
                \/ ~pax.ok \/ ~fare.ok \/ ~extra.ok \/ ~tip.ok \/ ~tolls.ok
                \/ ~total.ok
                \/ zone.k # "str"
                \/ row["trip_id"].k = "absent"
      out == [f \in TripFields |->
                CASE f \in DOMAIN floats -> Num(floats[f].n)
                  [] f = "passenger_count" -> Num(100 * pax.n)
                  [] f = "fare_amount" -> Num(fare.n)
                  [] f = "extra_charges" -> Num(extra.n)
                  [] f = "tip_amount" -> Num(tip.n)
                  [] f = "tolls_amount" -> Num(tolls.n)
                  [] f = "total_amount" -> Num(total.n)
                  [] f = "zone_name" -> Str(StripQuotes(zone.s))
                  [] OTHER -> row[f]]
  IN IF pd.k = "absent" THEN [outcome |-> "skip", row |-> NoTrip]
     ELSE IF pd.k # "str" THEN [outcome |-> "error", row |-> NoTrip]
     ELSE IF pd.s \in BlankTexts THEN [outcome |-> "skip", row |-> NoTrip]
     ELSE IF raised THEN [outcome |-> "error", row |-> NoTrip]
     ELSE [outcome |-> "ok", row |-> out]

\* The order of the columns in the source file.
CsvOrder ==
  <<"trip_id", "pickup_datetime", "taxi_id", "latitude", "longitude",
    "pickup_lat", "pickup_long", "drop_lat", "drop_long", "distance_km",
    "zone_name", "passenger_count", "fare_amount", "extra_charges",
    "tip_amount", "tolls_amount", "total_amount", "payment_type", "extra">>

\* A complete line of the source file, every cell a text.
CsvRow(tid) ==
  [f \in TripFields |->
     CASE f = "trip_id" -> Str(tid)
       [] f = "taxi_id" -> Str("TX1")
       [] f = "pickup_datetime" -> Str("2024-01-01T10:00:00")
       [] f \in {"pickup_lat", "latitude"} -> Str("12.9")
       [] f \in {"pickup_long", "longitude"} -> Str("77.6")
       [] f = "drop_lat" -> Str("12.95")
       [] f = "drop_long" -> Str("77.65")
       [] f = "distance_km" -> Str("8.2")
       [] f = "zone_name" -> Str("\"Downtown Plaza\"")
       [] f = "passenger_count" -> Str("2")
       [] f \in {"extra_charges", "extra"} -> Str("1")
       [] f = "tip_amount" -> Str("2.5")
       [] f = "payment_type" -> Str("CARD")
       [] OTHER -> Str("0")]

\* A line with only its first k cells: DictReader gives None for the rest.
ShortRow(row, k) ==
  [f \in TripFields |->
     IF \E i \in 1..k : CsvOrder[i] = f THEN row[f] ELSE Null]

\* The lines of the model's source files.
CsvRows ==
  { CsvRow("T1"),
    CsvRow("T2"),
    With(CsvRow("T3"), "pickup_datetime", Str(" ")),
    ShortRow(CsvRow("T4"), 1),
    With(CsvRow("T5"), "distance_km", Str("abc")) }

\* The header lines: every column but the legacy `extra`; the same without
\* pickup_datetime; a legacy file with few columns.
CsvHeaders ==
  { TripFields \ {"extra"},
    TripFields \ {"extra", "pickup_datetime"},
    {"trip_id", "pickup_datetime", "latitude", "longitude", "extra"} }

\* The dict DictReader yields for a line under a header.
DictRow(header, row) == [f \in TripFields |-> IF f \in header THEN row[f] ELSE Absent]

\* ------------------------------------------------------------------ state
VARIABLES
  BATCH_SIZE,            \* producer.py module global (line 11)
  ppc,                   \* position of the producer process
  pfile,                 \* the source file: exists, header, rows
  prow,                  \* index of the row csv_reader yields next
  records_batch,
  kinesis_calls,         \* put_records calls issued: [ok, batch]
  pstatus,               \* how the run ended
  PLACE_INDEX_NAME,      \* enrich_trip_data.py module global (line 13)
  SQS_QUEUE_URL,         \* enrich_trip_data.py module global (line 14)
  epc,                   \* position of the Enrichment process
  eevent,                \* event['Records'] of its invocation
  ei,                    \* index of the record the for loop is at
  etrip,                 \* trip_data of record ei once the zone is attached
  geo_calls,             \* search_place_index_for_position calls:
                         \* [idx, ok, results]
  sqs_calls,             \* send_message calls issued: [idx, ok]
  queue,                 \* message bodies the queue accepted, in order
  eresult,               \* the handler's return value
  DYNAMODB_TABLE_NAME,   \* process_and_store.py module global (line 11)
  FIREHOSE_STREAM_NAME,  \* process_and_store.py module global (line 12)
  fpc,                   \* position of the Fare & Persistence process
  fevent,                \* event['Records'] of its invocation
  fi,                    \* index of the record the for loop is at
  processed_count,
  failed_count,
  ddb_calls,             \* table.put_item calls issued: [idx, ok]
  fh_calls,              \* FIREHOSE_CLIENT.put_record calls issued: [idx, ok]
  table,                 \* items of the primary store, keyed by trip_id
  firehose,              \* lines appended to the analytics sink, in order
  fresult,               \* the handler's return value
  ufn,                   \* the function a direct call applies
  uarg,                  \* the arguments of the direct call
  udone,                 \* the direct call has returned
  uresult                \* what the direct call returned

fvars ==
  <<DYNAMODB_TABLE_NAME, FIREHOSE_STREAM_NAME, fpc, fevent, fi,
    processed_count, failed_count, ddb_calls, fh_calls, table, firehose,
    fresult>>

pvars ==
  <<BATCH_SIZE, ppc, pfile, prow, records_batch, kinesis_calls, pstatus>>

evars ==
  <<PLACE_INDEX_NAME, SQS_QUEUE_URL, epc, eevent, ei, etrip, geo_calls,
    sqs_calls, queue, eresult>>

uvars == <<ufn, uarg, udone, uresult>>

vars == <<pvars, evars, fvars, uvars>>

\* One stage process is observed in a behaviour: a stage starts only while
\* the other two have not been started.
OthersUnloaded(stage) ==
  /\ stage = "producer" \/ ppc = "unloaded"
  /\ stage = "enrich" \/ epc = "unloaded"
  /\ stage = "fare" \/ fpc = "unloaded"

NoResult == [statusCode |-> 0, processed |-> 0, failed |-> 0, total |-> 0]

\* Before the process of the stage is started nothing of it exists.
FInit ==
  /\ DYNAMODB_TABLE_NAME = Null
  /\ FIREHOSE_STREAM_NAME = Null
  /\ fpc = "unloaded"
  /\ fevent = <<>>
  /\ fi = 0
  /\ processed_count = 0
  /\ failed_count = 0
  /\ ddb_calls = <<>>
  /\ fh_calls = <<>>
  /\ table = {}
  /\ firehose = <<>>
  /\ fresult = NoResult

\* Lines 7-12: the module is imported and reads its environment.
FLoad ==
  /\ UNCHANGED <<pvars, evars, uvars>>
  /\ fpc = "unloaded"
  /\ OthersUnloaded("fare")
  /\ DYNAMODB_TABLE_NAME' \in EnvValues
  /\ FIREHOSE_STREAM_NAME' \in EnvValues
  /\ fpc' = "idle"
  /\ UNCHANGED <<fevent, fi, processed_count, failed_count, ddb_calls,
                 fh_calls, table, firehose, fresult>>

\* FInvoke with a configuration check of the table name alone.
FInvoke_TableOnly ==
  /\ UNCHANGED <<pvars, evars, uvars>>
  /\ fpc = "idle"
  /\ \E ev \in BoundedSeq(FareRecords, MaxBatch) :
       /\ fevent' = ev
       /\ IF ~Truthy(DYNAMODB_TABLE_NAME)
            THEN /\ fpc' = "done"
                 /\ fresult' = [NoResult EXCEPT !.statusCode = 500]
                 /\ fi' = fi
            ELSE /\ fpc' = "loop"
                 /\ fresult' = fresult
                 /\ fi' = 1
  /\ processed_count' = 0
  /\ failed_count' = 0
  /\ UNCHANGED <<DYNAMODB_TABLE_NAME, FIREHOSE_STREAM_NAME, ddb_calls,
                 fh_calls, table, firehose>>

\* Lines 74-89: the configuration check, then the counters are reset.
FInvoke ==
  /\ UNCHANGED <<pvars, evars, uvars>>
  /\ fpc = "idle"
  /\ \E ev \in BoundedSeq(FareRecords, MaxBatch) :
       /\ fevent' = ev
       /\ IF ~Truthy(DYNAMODB_TABLE_NAME) \/ ~Truthy(FIREHOSE_STREAM_NAME)
            THEN /\ fpc' = "done"
                 /\ fresult' = [NoResult EXCEPT !.statusCode = 500]
                 /\ fi' = fi
            ELSE /\ fpc' = "loop"
                 /\ fresult' = fresult
                 /\ fi' = 1
  /\ processed_count' = 0
  /\ failed_count' = 0
  /\ UNCHANGED <<DYNAMODB_TABLE_NAME, FIREHOSE_STREAM_NAME, ddb_calls,
                 fh_calls, table, firehose>>

\* FPrepare with a failure path that forgets the counter: a record that is
\* not ready for the store is skipped without failed_count += 1.
FPrepare_Uncounted ==
  /\ UNCHANGED <<pvars, evars, uvars>>
  /\ fpc = "loop"
  /\ fi <= Len(fevent)
  /\ IF Prepare(fevent[fi]).outcome = "ready"
       THEN /\ fpc' = "put_item"
            /\ UNCHANGED <<fi, failed_count>>
       ELSE /\ fpc' = "loop"
            /\ fi' = fi + 1
            /\ failed_count' = failed_count
  /\ UNCHANGED <<DYNAMODB_TABLE_NAME, FIREHOSE_STREAM_NAME, fevent,
                 processed_count, ddb_calls, fh_calls, table, firehose,
                 fresult>>

\* Lines 93-145 for record fi: decode, validate, fare, defaults, total, item.
\* A record that is not ready for the store is counted as failed and the
\* loop moves on (`continue`, or one of the two except clauses).
FPrepare ==
  /\ UNCHANGED <<pvars, evars, uvars>>
  /\ fpc = "loop"
  /\ fi <= Len(fevent)
  /\ IF Prepare(fevent[fi]).outcome = "ready"
       THEN /\ fpc' = "put_item"
            /\ UNCHANGED <<fi, failed_count>>
       ELSE /\ fpc' = "loop"
            /\ fi' = fi + 1
            /\ failed_count' = failed_count + 1
  /\ UNCHANGED <<DYNAMODB_TABLE_NAME, FIREHOSE_STREAM_NAME, fevent,
                 processed_count, ddb_calls, fh_calls, table, firehose,
                 fresult>>

\* A keyed put: the item replaces any item of the same trip_id.
PutItem(tbl, item) == {it \in tbl : it.trip_id # item.trip_id} \cup {item}

\* FPutItem with the store write outside the try block's protection of the
\* sink write: a failed put_item is counted, yet the sink write follows.
FPutItem_Continue ==
  /\ UNCHANGED <<pvars, evars, uvars>>
  /\ fpc = "put_item"
  /\ \E ok \in BOOLEAN :
       /\ ddb_calls' = Append(ddb_calls, [idx |-> fi, ok |-> ok])
       /\ IF ok
            THEN /\ table' = PutItem(table, Prepare(fevent[fi]).item)
                 /\ failed_count' = failed_count
            ELSE /\ table' = table
                 /\ failed_count' = failed_count + 1
  /\ fpc' = "put_record"
  /\ fi' = fi
  /\ UNCHANGED <<DYNAMODB_TABLE_NAME, FIREHOSE_STREAM_NAME, fevent,
                 processed_count, fh_calls, firehose, fresult>>

\* Line 148: table.put_item.  When it raises, the generic except clause
\* counts the record as failed and the loop moves on.
FPutItem ==
  /\ UNCHANGED <<pvars, evars, uvars>>
  /\ fpc = "put_item"
  /\ \E ok \in BOOLEAN :
       /\ ddb_calls' = Append(ddb_calls, [idx |-> fi, ok |-> ok])
       /\ IF ok
            THEN /\ table' = PutItem(table, Prepare(fevent[fi]).item)
                 /\ fpc' = "put_record"
                 /\ UNCHANGED <<fi, failed_count>>
            ELSE /\ table' = table
                 /\ fpc' = "loop"
                 /\ fi' = fi + 1
                 /\ failed_count' = failed_count + 1
  /\ UNCHANGED <<DYNAMODB_TABLE_NAME, FIREHOSE_STREAM_NAME, fevent,
                 processed_count, fh_calls, firehose, fresult>>

\* FPutRecord with processed_count += 1 placed before the sink call: a
\* record whose sink write fails is counted as processed and as failed.
FPutRecord_CountFirst ==
  /\ UNCHANGED <<pvars, evars, uvars>>
  /\ fpc = "put_record"
  /\ \E ok \in BOOLEAN :
       /\ fh_calls' = Append(fh_calls, [idx |-> fi, ok |-> ok])
       /\ IF ok
            THEN /\ firehose' =
                      Append(firehose, firehose_data(Prepare(fevent[fi]).trip_data))
                 /\ failed_count' = failed_count
            ELSE /\ firehose' = firehose
                 /\ failed_count' = failed_count + 1
  /\ processed_count' = processed_count + 1
  /\ fpc' = "loop"
  /\ fi' = fi + 1
  /\ UNCHANGED <<DYNAMODB_TABLE_NAME, FIREHOSE_STREAM_NAME, fevent,
                 ddb_calls, table, fresult>>

\* FPutRecord with a compensation: when the sink call raises, the item the
\* record wrote to the primary store is deleted again.
FPutRecord_Compensate ==
  /\ UNCHANGED <<pvars, evars, uvars>>
  /\ fpc = "put_record"
  /\ \E ok \in BOOLEAN :
       /\ fh_calls' = Append(fh_calls, [idx |-> fi, ok |-> ok])
       /\ IF ok
            THEN /\ firehose' =
                      Append(firehose, firehose_data(Prepare(fevent[fi]).trip_data))
                 /\ processed_count' = processed_count + 1
                 /\ failed_count' = failed_count
                 /\ table' = table
            ELSE /\ firehose' = firehose
                 /\ processed_count' = processed_count
                 /\ failed_count' = failed_count + 1
                 /\ table' = {it \in table :
                               it.trip_id # Prepare(fevent[fi]).item.trip_id}
  /\ fpc' = "loop"
  /\ fi' = fi + 1
  /\ UNCHANGED <<DYNAMODB_TABLE_NAME, FIREHOSE_STREAM_NAME, fevent,
                 ddb_calls, fresult>>

\* Lines 152-171: the analytics copy and FIREHOSE_CLIENT.put_record, then
\* processed_count += 1; when the call raises the record counts as failed.
FPutRecord ==
  /\ UNCHANGED <<pvars, evars, uvars>>
  /\ fpc = "put_record"
  /\ \E ok \in BOOLEAN :
       /\ fh_calls' = Append(fh_calls, [idx |-> fi, ok |-> ok])
       /\ IF ok
            THEN /\ firehose' =
                      Append(firehose, firehose_data(Prepare(fevent[fi]).trip_data))
                 /\ processed_count' = processed_count + 1
                 /\ failed_count' = failed_count
            ELSE /\ firehose' = firehose
                 /\ processed_count' = processed_count
                 /\ failed_count' = failed_count + 1
  /\ fpc' = "loop"
  /\ fi' = fi + 1
  /\ UNCHANGED <<DYNAMODB_TABLE_NAME, FIREHOSE_STREAM_NAME, fevent,
                 ddb_calls, table, fresult>>

\* Lines 181-195: the summary returned once the loop is over.
FReturn ==
  /\ UNCHANGED <<pvars, evars, uvars>>
  /\ fpc = "loop"
  /\ fi > Len(fevent)
  /\ fpc' = "done"
  /\ fresult' = [statusCode |-> 200, processed |-> processed_count,
                 failed |-> failed_count, total |-> Len(fevent)]
  /\ UNCHANGED <<DYNAMODB_TABLE_NAME, FIREHOSE_STREAM_NAME, fevent, fi,
                 processed_count, failed_count, ddb_calls, fh_calls, table,
                 firehose>>

\* ------------------------------------------------------------ Enrichment
NoCount == [statusCode |-> 0, count |-> 0]

EInit ==
  /\ PLACE_INDEX_NAME = Null
  /\ SQS_QUEUE_URL = Null
  /\ epc = "unloaded"
  /\ eevent = <<>>
  /\ ei = 0
  /\ etrip = NoTrip
  /\ geo_calls = <<>>
  /\ sqs_calls = <<>>
  /\ queue = <<>>
  /\ eresult = NoCount

\* Lines 8-14: the module is imported and reads its environment.
ELoad ==
  /\ UNCHANGED <<pvars, fvars, uvars>>
  /\ epc = "unloaded"
  /\ OthersUnloaded("enrich")
  /\ PLACE_INDEX_NAME' \in EnvValues
  /\ SQS_QUEUE_URL' \in EnvValues
  /\ epc' = "idle"
  /\ UNCHANGED <<eevent, ei, etrip, geo_calls, sqs_calls, queue, eresult>>

\* Lines 22-27: the configuration check, then the loop starts.
EInvoke ==
  /\ UNCHANGED <<pvars, fvars, uvars>>
  /\ epc = "idle"
  /\ \E ev \in BoundedSeq(EnrichRecords, MaxMsgs) :
       /\ eevent' = ev
       /\ IF ~Truthy(PLACE_INDEX_NAME) \/ ~Truthy(SQS_QUEUE_URL)
            THEN /\ epc' = "done"
                 /\ eresult' = [statusCode |-> 500, count |-> 0]
                 /\ ei' = ei
            ELSE /\ epc' = "loop"
                 /\ eresult' = eresult
                 /\ ei' = 1
  /\ UNCHANGED <<PLACE_INDEX_NAME, SQS_QUEUE_URL, etrip, geo_calls,
                 sqs_calls, queue>>

\* EDecode with the try block around the whole loop: the first message that
\* fails to decode ends the loop.
EDecode_Abort ==
  /\ UNCHANGED <<pvars, fvars, uvars>>
  /\ epc = "loop"
  /\ ei <= Len(eevent)
  /\ IF EPrepare(eevent[ei]) = "ready"
       THEN /\ epc' = "geocode"
            /\ ei' = ei
       ELSE /\ epc' = "loop"
            /\ ei' = Len(eevent) + 1
  /\ UNCHANGED <<PLACE_INDEX_NAME, SQS_QUEUE_URL, eevent, etrip, geo_calls,
                 sqs_calls, queue, eresult>>

\* Lines 29-38 for record ei: decode and read the coordinates.  Both except
\* clauses `continue` with the next record.
EDecode ==
  /\ UNCHANGED <<pvars, fvars, uvars>>
  /\ epc = "loop"
  /\ ei <= Len(eevent)
  /\ IF EPrepare(eevent[ei]) = "ready"
       THEN /\ epc' = "geocode"
            /\ ei' = ei
       ELSE /\ epc' = "loop"
            /\ ei' = ei + 1
  /\ UNCHANGED <<PLACE_INDEX_NAME, SQS_QUEUE_URL, eevent, etrip, geo_calls,
                 sqs_calls, queue, eresult>>

\* Lines 40-57: the geocoding call and the zone it gives.  When the call
\* raises, the generic except clause continues with the next record.
EGeocode ==
  /\ UNCHANGED <<pvars, fvars, uvars>>
  /\ epc = "geocode"
  /\ \/ /\ geo_calls' =
             Append(geo_calls, [idx |-> ei, ok |-> FALSE, results |-> <<>>])
        /\ epc' = "loop"
        /\ ei' = ei + 1
        /\ etrip' = etrip
     \/ \E results \in GeoResults :
          /\ geo_calls' =
               Append(geo_calls, [idx |-> ei, ok |-> TRUE, results |-> results])
          /\ etrip' = With(eevent[ei].data, "zone_name", Str(ZoneOf(results)))
          /\ epc' = "send"
          /\ ei' = ei
  /\ UNCHANGED <<PLACE_INDEX_NAME, SQS_QUEUE_URL, eevent, sqs_calls, queue,
                 eresult>>

\* Lines 61-67: the enriched record is serialised and sent to the queue.
\* When send_message raises, the generic except clause continues.
ESend ==
  /\ UNCHANGED <<pvars, fvars, uvars>>
  /\ epc = "send"
  /\ \E ok \in BOOLEAN :
       /\ sqs_calls' = Append(sqs_calls, [idx |-> ei, ok |-> ok])
       /\ queue' = IF ok THEN Append(queue, etrip) ELSE queue
  /\ epc' = "loop"
  /\ ei' = ei + 1
  /\ etrip' = NoTrip
  /\ UNCHANGED <<PLACE_INDEX_NAME, SQS_QUEUE_URL, eevent, geo_calls, eresult>>

\* Lines 76-79: the count in the returned message is len(event['Records']).
EReturn ==
  /\ UNCHANGED <<pvars, fvars, uvars>>
  /\ epc = "loop"
  /\ ei > Len(eevent)
  /\ epc' = "done"
  /\ eresult' = [statusCode |-> 200, count |-> Len(eevent)]
  /\ UNCHANGED <<PLACE_INDEX_NAME, SQS_QUEUE_URL, eevent, ei, etrip,
                 geo_calls, sqs_calls, queue>>

\* -------------------------------------------------------------- Producer
NoFile == [exists |-> FALSE, header |-> {}, rows |-> <<>>]

\* The source files of the model: a missing file, or a header and up to
\* MaxRows lines.
SourceFiles ==
  {NoFile} \cup
  { [exists |-> TRUE, header |-> h, rows |-> [i \in DOMAIN r |-> DictRow(h, r[i])]] :
      h \in CsvHeaders, r \in BoundedSeq(CsvRows, MaxRows) }

PInit ==
  /\ BATCH_SIZE = 0
  /\ ppc = "unloaded"
  /\ pfile = NoFile
  /\ prow = 0
  /\ records_batch = <<>>
  /\ kinesis_calls = <<>>
  /\ pstatus = "none"

\* Lines 8-11: the module is imported and reads its configuration.
PLoad ==
  /\ UNCHANGED <<evars, fvars, uvars>>
  /\ ppc = "unloaded"
  /\ OthersUnloaded("producer")
  /\ BATCH_SIZE' \in 1..MaxBatchSize
  /\ ppc' = "idle"
  /\ UNCHANGED <<pfile, prow, records_batch, kinesis_calls, pstatus>>

\* Lines 17-24: send_data_in_batches opens the source; a missing file is
\* reported and the run ends (lines 62-63, 67).
POpen ==
  /\ UNCHANGED <<evars, fvars, uvars>>
  /\ ppc = "idle"
  /\ \E file \in SourceFiles :
       /\ pfile' = file
       /\ IF file.exists
            THEN ppc' = "read" /\ pstatus' = pstatus
            ELSE ppc' = "done" /\ pstatus' = "not_found"
  /\ prow' = 1
  /\ records_batch' = <<>>
  /\ UNCHANGED <<BATCH_SIZE, kinesis_calls>>

\* Lines 26-53: one row of the for loop.  An exception anywhere in the loop
\* body is caught by the except clause of line 64, outside the loop: the run
\* ends there, without the final flush.
PRow ==
  /\ UNCHANGED <<evars, fvars, uvars>>
  /\ ppc = "read"
  /\ prow <= Len(pfile.rows)
  /\ LET r == ReadRow(pfile.rows[prow])
     IN CASE r.outcome = "skip" ->
               /\ prow' = prow + 1
               /\ UNCHANGED <<ppc, records_batch, pstatus>>
          [] r.outcome = "error" ->
               /\ ppc' = "done"
               /\ pstatus' = "error"
               /\ UNCHANGED <<prow, records_batch>>
          [] OTHER ->
               /\ records_batch' =
                    Append(records_batch,
                           [Data |-> r.row, PartitionKey |-> r.row["trip_id"]])
               /\ prow' = prow + 1
               /\ ppc' = IF Len(records_batch) + 1 >= BATCH_SIZE
                         THEN "send" ELSE "read"
               /\ pstatus' = pstatus
  /\ UNCHANGED <<BATCH_SIZE, pfile, kinesis_calls>>

\* PSendBatch with a failed batch kept in the buffer, to be sent again with
\* the rows that follow.
PSendBatch_Retry ==
  /\ UNCHANGED <<evars, fvars, uvars>>
  /\ ppc = "send"
  /\ \E ok \in BOOLEAN :
       /\ kinesis_calls' =
            Append(kinesis_calls, [ok |-> ok, batch |-> records_batch])
       /\ records_batch' = IF ok THEN <<>> ELSE records_batch
  /\ ppc' = "read"
  /\ UNCHANGED <<BATCH_SIZE, pfile, prow, pstatus>>

\* Lines 54-56 with _send_batch (lines 69-77): the full batch is published;
\* _send_batch swallows a failure; the buffer restarts empty either way.
PSendBatch ==
  /\ UNCHANGED <<evars, fvars, uvars>>
  /\ ppc = "send"
  /\ \E ok \in BOOLEAN :
       kinesis_calls' = Append(kinesis_calls, [ok |-> ok, batch |-> records_batch])
  /\ records_batch' = <<>>
  /\ ppc' = "read"
  /\ UNCHANGED <<BATCH_SIZE, pfile, prow, pstatus>>

\* Lines 58-60, 67: at the end of the input the remaining records are
\* published; records_batch is not reset afterwards.
PFlush ==
  /\ UNCHANGED <<evars, fvars, uvars>>
  /\ ppc = "read"
  /\ prow > Len(pfile.rows)
  /\ IF records_batch # <<>>
       THEN \E ok \in BOOLEAN :
              kinesis_calls' =
                Append(kinesis_calls, [ok |-> ok, batch |-> records_batch])
       ELSE kinesis_calls' = kinesis_calls
  /\ ppc' = "done"
  /\ pstatus' = "finished"
  /\ UNCHANGED <<BATCH_SIZE, pfile, prow, records_batch>>

\* ---------------------------------------------------------- specification
\* No function is called directly while the stage processes run.
UIdle == ufn = "none" /\ uarg = <<>> /\ udone = FALSE /\ uresult = <<>>

Init == PInit /\ EInit /\ FInit /\ UIdle

Next ==
  \/ PLoad \/ POpen \/ PRow \/ PSendBatch \/ PFlush
  \/ ELoad \/ EInvoke \/ EDecode \/ EGeocode \/ ESend \/ EReturn
  \/ FLoad \/ FInvoke \/ FPrepare \/ FPutItem \/ FPutRecord \/ FReturn

Spec == Init /\ [][Next]_vars

\* ------------------------------------------- direct calls of the functions
\* The largest distance of a direct call of calculate_fare, in tenths of a
\* kilometre.
MaxDistanceTenths == 100

\* Distances of a direct call: the multiples of 0.1 km up to the bound
\* (their fare has no third decimal, so round meets no tie), numeric texts,
\* texts float() rejects, and None.
Distances ==
  {Num(10 * k) : k \in 0..MaxDistanceTenths}
  \cup {Str("8.2"), Str("10"), Str("abc"), Str(""), Null}

\* Zones of a direct call; None stands for trip_data.get('zone_name') of a
\* record without the key.
Zones ==
  {Null, Str(""), Str("Downtown"), Str("Downtown Plaza"),
   Str("Airport Terminal"), Str("City Airport Road")}

FareCalls == [distance_km : Distances, zone_name : Zones]

\* What a direct call of validate_trip_data finds in a required field: the
\* value of the well-formed trip, no key, None, or a text float() rejects
\* (numeric fields only).
Damages == {"good", "absent", "null", "text"}

Damaged(damage) ==
  [f \in TripFields |->
     IF f \notin DOMAIN damage THEN BaseTrip("T1")[f]
     ELSE CASE damage[f] = "absent" -> Absent
            [] damage[f] = "null" -> Null
            [] damage[f] = "text" -> Str("abc")
            [] OTHER -> BaseTrip("T1")[f]]

ValidateCalls ==
  LET required == {required_fields[i] : i \in 1..Len(required_fields)}
      numeric == {numeric_fields[i] : i \in 1..Len(numeric_fields)}
  IN { [damage |-> dmg, trip_data |-> Damaged(dmg)] :
         dmg \in {d \in [required -> Damages] :
                    \A f \in required \ numeric : d[f] # "text"} }

\* A direct call is chosen with its arguments; nothing else runs.
UInit ==
  /\ PInit /\ EInit /\ FInit
  /\ \/ ufn = "calculate_fare" /\ uarg \in FareCalls
     \/ ufn = "validate_trip_data" /\ uarg \in ValidateCalls
  /\ udone = FALSE
  /\ uresult = <<>>

\* calculate_fare (lines 15-32) applied to the chosen arguments.
UCalculateFare ==
  /\ UNCHANGED <<pvars, evars, fvars>>
  /\ ufn = "calculate_fare" /\ ~udone
  /\ uresult' = calculate_fare(uarg.distance_km, uarg.zone_name)
  /\ udone' = TRUE
  /\ UNCHANGED <<ufn, uarg>>

\* validate_trip_data (lines 46-67) applied to the chosen record.
UValidateTripData ==
  /\ UNCHANGED <<pvars, evars, fvars>>
  /\ ufn = "validate_trip_data" /\ ~udone
  /\ uresult' = validate_trip_data(uarg.trip_data)
  /\ udone' = TRUE
  /\ UNCHANGED <<ufn, uarg>>

UNext == UCalculateFare \/ UValidateTripData

FunctionSpec == UInit /\ [][UNext]_vars

\* ------------------------------------------------------- reading the logs
\* The calls of a log issued for record i of the batch.
Issued(calls, i) == {k \in DOMAIN calls : calls[k].idx = i}

OkCall(calls, i) == \E k \in DOMAIN calls : calls[k].idx = i /\ calls[k].ok

FailedCall(calls, i) == \E k \in DOMAIN calls : calls[k].idx = i /\ ~calls[k].ok

\* The Fare & Persistence invocation passed the configuration check.
FRunning == fpc \in {"loop", "put_item", "put_record"}

FReturned == fpc = "done" /\ fresult.statusCode = 200

\* Record i of the batch decodes to a dict that validate_trip_data rejects.
FInvalid(i) == fevent[i].json = "dict" /\ ~validate_trip_data(fevent[i].data).ok

\* A trip_id that is absent, null or the empty string.
NoTripId(v) == v.k \in {"absent", "null"} \/ v = Str("")

\* -------------------------------------------------------------- claims

\* C1 (batch isolation): when the handler has returned from a batch of N
\* records none of which fails to decode and in which no store or sink call
\* failed, with k records failing validation, then the store and the sink
\* were written for exactly the N-k valid records and the result is
\* processed = N-k, failed = k, total = N.
C1_BatchIsolation ==
  LET N == Len(fevent)
      invalid == {i \in 1..N : FInvalid(i)}
      k == Cardinality(invalid)
  IN (/\ FReturned
      /\ \A i \in 1..N : fevent[i].json = "dict"
      /\ \A c \in DOMAIN ddb_calls : ddb_calls[c].ok
      /\ \A c \in DOMAIN fh_calls : fh_calls[c].ok)
     => /\ {i \in 1..N : OkCall(ddb_calls, i)} = (1..N) \ invalid
        /\ {i \in 1..N : OkCall(fh_calls, i)} = (1..N) \ invalid
        /\ fresult.processed = N - k
        /\ fresult.failed = k
        /\ fresult.total = N

\* C2 (validation gate), state part: no store call and no sink call is ever
\* issued for a record that fails validation.
C2_NoEffect ==
  \A i \in 1..Len(fevent) :
    FInvalid(i) => Issued(ddb_calls, i) = {} /\ Issued(fh_calls, i) = {}

\* C2, step part: the step that handles a record failing validation adds
\* exactly one to failed, leaves processed, the store and the sink alone,
\* and leaves the loop at the next record.
C2_Step ==
  (FRunning /\ fpc = "loop" /\ fi <= Len(fevent) /\ FInvalid(fi))
  => /\ failed_count' = failed_count + 1
     /\ processed_count' = processed_count
     /\ table' = table /\ firehose' = firehose
     /\ ddb_calls' = ddb_calls /\ fh_calls' = fh_calls
     /\ fpc' = "loop" /\ fi' = fi + 1

\* C2 (validation is a gate before any side effect): a record that fails
\* validate_trip_data causes no primary-store write and no analytics-sink
\* write, adds exactly one to failed, and the loop goes on with the next
\* record.
C2_ValidationGate == [](C2_NoEffect) /\ [][C2_Step]_vars

\* C2 witness: the handler returned from a batch in which a record failed
\* validation and a later record was written to the store and the sink.
C2_Witness ==
  /\ FReturned
  /\ \E i, j \in 1..Len(fevent) :
       i < j /\ FInvalid(i) /\ OkCall(ddb_calls, j) /\ OkCall(fh_calls, j)

\* C3, step part: a step in which the store call or the sink call raises
\* adds exactly one to failed, leaves processed alone and leaves the loop at
\* the next record.
C3_Step ==
  (\/ fpc = "put_item" /\ ddb_calls' = Append(ddb_calls, [idx |-> fi, ok |-> FALSE])
   \/ fpc = "put_record" /\ fh_calls' = Append(fh_calls, [idx |-> fi, ok |-> FALSE]))
  => /\ failed_count' = failed_count + 1
     /\ processed_count' = processed_count
     /\ fpc' = "loop" /\ fi' = fi + 1

\* C3, state part: a running invocation in which a write failed can always
\* take its next step, and once it has returned it has gone through the
\* whole batch and reports status 200.
C3_NoAbort ==
  (\E c \in DOMAIN ddb_calls : ~ddb_calls[c].ok) \/ (\E c \in DOMAIN fh_calls : ~fh_calls[c].ok)
  => /\ FRunning => ENABLED (FPrepare \/ FPutItem \/ FPutRecord \/ FReturn)
     /\ fpc = "done" => fresult.statusCode = 200 /\ fi = Len(fevent) + 1

\* C3 (dual-write failure handling): a record whose primary-store write or
\* analytics-sink write fails is counted as failed exactly once and not as
\* processed, the following records are still attempted, and the invocation
\* is not aborted.
C3_DualWriteFailure == [](C3_NoAbort) /\ [][C3_Step]_vars

\* C3 witness: the handler returned from a batch in which a store write and
\* a sink write failed and a later record was written to both.
C3_Witness ==
  /\ FReturned
  /\ \E i, j, l \in 1..Len(fevent) :
       /\ i < l /\ j < l
       /\ FailedCall(ddb_calls, i) /\ FailedCall(fh_calls, j)
       /\ OkCall(ddb_calls, l) /\ OkCall(fh_calls, l)

\* C4 (downstream-call error): in both handlers no call is issued twice for
\* a record; after a failed store write no sink write is issued for that
\* record, and after a failed geocoding call no queue publish is issued for
\* that message.
C4_NoLaterEffect ==
  /\ \A i \in 1..Len(fevent) :
       /\ Cardinality(Issued(ddb_calls, i)) <= 1
       /\ Cardinality(Issued(fh_calls, i)) <= 1
       /\ FailedCall(ddb_calls, i) => Issued(fh_calls, i) = {}
       /\ Issued(fh_calls, i) # {} => OkCall(ddb_calls, i)
  /\ \A i \in 1..Len(eevent) :
       /\ Cardinality(Issued(geo_calls, i)) <= 1
       /\ Cardinality(Issued(sqs_calls, i)) <= 1
       /\ FailedCall(geo_calls, i) => Issued(sqs_calls, i) = {}
       /\ Issued(sqs_calls, i) # {} => OkCall(geo_calls, i)

\* C4 witness: a store write failed for a record and the handler has gone
\* on to write a later record to the store and the sink.
C4_Witness ==
  \E i, j \in 1..Len(fevent) :
    i < j /\ FailedCall(ddb_calls, i) /\ OkCall(fh_calls, j)

\* C5 (batch result): while the loop runs every record behind the loop index
\* has been counted exactly once, the invocation can always take a step,
\* and the value returned has status 200 with processed + failed = total =
\* the number of records of the batch.
C5_BatchResult ==
  [](/\ FRunning =>
        /\ processed_count + failed_count = fi - 1
        /\ fi <= Len(fevent) + 1
        /\ ENABLED (FPrepare \/ FPutItem \/ FPutRecord \/ FReturn)
     /\ (fpc = "done" /\ Truthy(DYNAMODB_TABLE_NAME)
         /\ Truthy(FIREHOSE_STREAM_NAME)) =>
        /\ fresult.statusCode = 200
        /\ fresult.total = Len(fevent)
        /\ fresult.processed + fresult.failed = fresult.total
        /\ fresult.processed =
             Cardinality({i \in 1..Len(fevent) : OkCall(fh_calls, i)}))

\* C5 witness: the handler returned from a batch holding an undecodable
\* body, a record whose store or sink write failed and a record it
\* processed.
C5_Witness ==
  /\ FReturned
  /\ \E i, j, l \in 1..Len(fevent) :
       /\ fevent[i].json = "bad"
       /\ FailedCall(ddb_calls, j) \/ FailedCall(fh_calls, j)
       /\ OkCall(fh_calls, l)

\* C6 (trip_id invariant): a record whose trip_id is absent, null or the
\* empty string is rejected before persistence: no store write and no sink
\* write is issued for it, and no stored item or sink line has such a
\* trip_id.
C6_TripIdNeverPersisted ==
  /\ \A i \in 1..Len(fevent) :
       (fevent[i].json = "dict" /\ NoTripId(fevent[i].data["trip_id"]))
       => Issued(ddb_calls, i) = {} /\ Issued(fh_calls, i) = {}
  /\ \A it \in table : ~NoTripId(it.trip_id)
  /\ \A l \in DOMAIN firehose : ~NoTripId(firehose[l]["trip_id"])

\* ------------------------------------------------- claims on the Enrichment
EReturned == epc = "done" /\ eresult.statusCode = 200

\* The send_message calls that succeeded, in the order they were issued.
Sent == SelectSeq(sqs_calls, LAMBDA c : c.ok)

\* C7 (per-message isolation): every message behind the loop index that
\* decodes with usable coordinates had its geocoding call, and its queue
\* publish when geocoding succeeded; a message that fails gets no publish;
\* the queue holds, in batch order and once each, exactly the messages
\* whose two calls succeeded; and a handler that has returned went through
\* the whole batch.
C7_MessageIsolation ==
  /\ \A i \in 1..Len(eevent) :
       /\ (i < ei /\ EPrepare(eevent[i]) = "ready") =>
            /\ Cardinality(Issued(geo_calls, i)) = 1
            /\ OkCall(geo_calls, i) => Cardinality(Issued(sqs_calls, i)) = 1
       /\ EPrepare(eevent[i]) # "ready" =>
            Issued(geo_calls, i) = {} /\ Issued(sqs_calls, i) = {}
  /\ Len(queue) = Len(Sent)
  /\ \A k \in DOMAIN queue :
       /\ queue[k] = With(eevent[Sent[k].idx].data, "zone_name", queue[k]["zone_name"])
       /\ OkCall(geo_calls, Sent[k].idx)
       /\ \A m \in DOMAIN queue : k < m => Sent[k].idx < Sent[m].idx
  /\ epc \in {"loop", "geocode", "send"} =>
       ENABLED (EDecode \/ EGeocode \/ ESend \/ EReturn)
  /\ EReturned => ei = Len(eevent) + 1

\* C7 witness: the handler returned from a batch whose first and last
\* messages were published while a message between them failed.
C7_Witness ==
  /\ EReturned
  /\ \E i, j, l \in 1..Len(eevent) :
       /\ i < j /\ j < l
       /\ OkCall(sqs_calls, i) /\ OkCall(sqs_calls, l)
       /\ EPrepare(eevent[j]) # "ready"
  /\ Len(queue) = 2

\* C8 (result reporting): the count the handler reports as processed and
\* sent to the queue is the number of messages it published.
C8_ReportedCount == EReturned => eresult.count = Len(queue)

\* --------------------------------------------------- claims on the Producer
\* The admission rule as the claim states it: pickup_datetime is missing
\* (no column, or no value in a short row) or blank.
MissingOrBlank(row) ==
  LET pd == row["pickup_datetime"]
  IN pd.k \in {"absent", "null"} \/ (pd.k = "str" /\ pd.s \in BlankTexts)

Admitted(row) == ~MissingOrBlank(row)

RECURSIVE Flatten(_)
\* The records of the bulk publishes, in the order they were handed over.
Flatten(calls) ==
  IF calls = <<>> THEN <<>> ELSE Head(calls).batch \o Flatten(Tail(calls))

Published == Flatten(kinesis_calls)

\* The admitted rows among those the for loop has gone past.
AdmittedRows == SelectSeq(SubSeq(pfile.rows, 1, prow - 1), Admitted)

PEnded == ppc = "done" /\ pfile.exists

\* C9 (producer batching): no bulk publish carries more than BATCH_SIZE
\* records and all but the last carry exactly BATCH_SIZE; at the end of the
\* run every admitted row the loop has gone past has been handed to exactly
\* one bulk publish, in source order, so that no buffered row is left
\* without a publish.
C9_Batching ==
  /\ \A c \in DOMAIN kinesis_calls :
       /\ Len(kinesis_calls[c].batch) <= BATCH_SIZE
       /\ c < Len(kinesis_calls) => Len(kinesis_calls[c].batch) = BATCH_SIZE
  /\ PEnded =>
       /\ Len(Published) = Len(AdmittedRows)
       /\ \A k \in DOMAIN Published :
            Published[k].PartitionKey = AdmittedRows[k]["trip_id"]

\* C10 (admission rule): a row whose pickup_datetime is missing or blank
\* never ends the run and is in no published batch, and at the end of the
\* run every admitted row after such a row has been published.
C10_SkipNotFatal ==
  /\ (ppc = "done" /\ pstatus = "error") => ~MissingOrBlank(pfile.rows[prow])
  /\ \A k \in DOMAIN Published :
       \A i \in DOMAIN pfile.rows :
         MissingOrBlank(pfile.rows[i]) =>
           Published[k].PartitionKey # pfile.rows[i]["trip_id"]
  /\ PEnded =>
       \A i, j \in DOMAIN pfile.rows :
         (i < j /\ MissingOrBlank(pfile.rows[i]) /\ Admitted(pfile.rows[j]))
         => \E k \in DOMAIN Published :
              Published[k].PartitionKey = pfile.rows[j]["trip_id"]

\* The rows the for loop has gone past and appended to records_batch.
BufferedRows ==
  SelectSeq(SubSeq(pfile.rows, 1, prow - 1),
            LAMBDA row : ReadRow(row).outcome = "ok")

\* The final flush has handed records_batch over (the list is not reset).
Flushed == ppc = "done" /\ pstatus = "finished"

\* Every record the run has built so far, in the order of the hand-over:
\* those given to a bulk publish, then those still waiting in the buffer.
HandedOrWaiting == Published \o (IF Flushed THEN <<>> ELSE records_batch)

\* C11 (publish failure): a failed bulk publish is not retried and its
\* records do not return to the buffer: every buffered row is, in source
\* order, in exactly one place, a bulk publish (failed or not) or the
\* waiting buffer; the step of a failed publish of a full batch leaves the
\* buffer empty and the loop at the next row; a failed publish never ends
\* the run with an error.
C11_FailedBatchDropped ==
  /\ [](/\ Len(HandedOrWaiting) = Len(BufferedRows)
        /\ \A k \in DOMAIN HandedOrWaiting :
             HandedOrWaiting[k].PartitionKey = BufferedRows[k]["trip_id"]
        /\ (ppc = "done" /\ pstatus = "error") =>
             ReadRow(pfile.rows[prow]).outcome = "error")
  /\ [][(/\ ppc = "send"
         /\ Len(kinesis_calls') = Len(kinesis_calls) + 1
         /\ ~kinesis_calls'[Len(kinesis_calls')].ok)
        => (records_batch' = <<>> /\ ppc' = "read" /\ prow' = prow)]_vars

\* A run that ended normally after a failed bulk publish of a full batch
\* and a later successful publish of the rows that followed.
C11_Witness ==
  /\ PEnded /\ pstatus = "finished"
  /\ Len(kinesis_calls) = 2
  /\ ~kinesis_calls[1].ok /\ kinesis_calls[2].ok
  /\ Len(kinesis_calls[1].batch) = 2
  /\ kinesis_calls[2].batch[1].PartitionKey
       # kinesis_calls[1].batch[1].PartitionKey

\* ------------------------------------- claims on the stored and sunk data
\* The record without the fare_amount and total_amount an upstream stage
\* put in it.
WithoutUpstreamAmounts(td) ==
  [td EXCEPT !["fare_amount"] = Absent, !["total_amount"] = Absent]

\* The fare of the tariff for a distance in hundredths of a kilometre.
Tariff(distance, airport) ==
  5000 + (185 * distance) \div 10 + (IF airport THEN 10000 ELSE 0)

\* C12 (total additivity): the total_amount of every item of the primary
\* store is the sum of the item's fare_amount, extra_charges, tip_amount and
\* tolls_amount (amounts with two decimals, so the rounding changes
\* nothing); its fare_amount is the tariff of the item's distance and zone;
\* and the item is the one the same record gives without its upstream
\* fare_amount and total_amount.
C12_TotalRecomputed ==
  \A it \in table :
    /\ it.total_amount =
         it.fare_amount + it.extra_charges + it.tip_amount + it.tolls_amount
    /\ it.fare_amount =
         Tariff(it.distance_km,
                it.zone_name.s \in {"Airport Terminal", "City Airport Road"})
    /\ \E i \in 1..Len(fevent) :
         /\ OkCall(ddb_calls, i)
         /\ Prepare(Body(WithoutUpstreamAmounts(fevent[i].data))).item = it

\* The store holds the item of a record that came with an upstream
\* fare_amount of 1.00 and total_amount of 2.00: fare 335.00, total 338.50.
C12_Witness ==
  \E it \in table :
    /\ it.fare_amount = 33500 /\ it.total_amount = 33850
    /\ \E i \in 1..Len(fevent) :
         /\ OkCall(ddb_calls, i)
         /\ fevent[i].data["trip_id"] = it.trip_id
         /\ fevent[i].data["fare_amount"] = Num(100)
         /\ fevent[i].data["total_amount"] = Num(200)

\* A billing field of the record that is present and that float() (int()
\* for passenger_count) does not parse: a non-numeric text or null.
UnparsableBilling(td) ==
  \/ \E f \in {"extra_charges", "tip_amount", "tolls_amount"} :
       td[f].k # "absent" /\ ~Float(td[f]).ok
  \/ td["passenger_count"].k # "absent" /\ ~ToInt(td["passenger_count"]).ok

\* C13 (unparsable billing values): a record the loop has gone past that
\* passes validation and carries an unparsable billing field had its store
\* write issued; when its two writes succeeded it is in the store and
\* counted as processed.
C13_UnparsableBillingPersisted ==
  \A i \in 1..Len(fevent) :
    (/\ FRunning \/ FReturned
     /\ i < fi
     /\ fevent[i].json = "dict"
     /\ validate_trip_data(fevent[i].data).ok
     /\ UnparsableBilling(fevent[i].data))
    => /\ Issued(ddb_calls, i) # {}
       /\ (OkCall(ddb_calls, i) /\ OkCall(fh_calls, i)) =>
            /\ \E it \in table : it.trip_id = fevent[i].data["trip_id"]
            /\ processed_count >= 1

\* ------------------------------------------- claims on the pure functions
\* The distance the claim gives a direct call, in hundredths of a
\* kilometre: the number, the number a numeric text writes, otherwise 0.
ClaimedDistance(d) ==
  CASE d.k = "num" -> d.n
    [] d = Str("8.2") -> 820
    [] d = Str("10") -> 1000
    [] OTHER -> 0

\* C14 (fare purity): a direct call of calculate_fare returns
\* 50 + 18.5 * distance, plus 100 when the zone contains "Airport", with a
\* non-numeric or null distance counted as 0 and no surcharge for an absent
\* or empty zone; 10 km in "Airport Terminal" gives 335.0 and 0 km in
\* "Downtown" gives 50.0.
C14_FarePurity ==
  (ufn = "calculate_fare" /\ udone) =>
    /\ uresult =
         Tariff(ClaimedDistance(uarg.distance_km),
                uarg.zone_name \in {Str("Airport Terminal"),
                                    Str("City Airport Road")})
    /\ uarg = [distance_km |-> Num(1000), zone_name |-> Str("Airport Terminal")]
         => uresult = 33500
    /\ uarg = [distance_km |-> Num(0), zone_name |-> Str("Downtown")]
         => uresult = 5000
    /\ uarg.distance_km \in {Null, Str("abc"), Str("")} =>
         uresult \in {5000, 15000}
    /\ uarg.zone_name \in {Null, Str("")} =>
         uresult = Tariff(ClaimedDistance(uarg.distance_km), FALSE)

\* The call for 8.2 km in an airport zone has returned 301.70.
C14_Witness ==
  /\ ufn = "calculate_fare" /\ udone
  /\ uarg = [distance_km |-> Str("8.2"), zone_name |-> Str("City Airport Road")]
  /\ uresult = 30170

\* The required fields in the order the specification lists them.
ListedFields ==
  <<"trip_id", "taxi_id", "pickup_datetime", "pickup_lat", "pickup_long",
    "drop_lat", "drop_long", "distance_km">>

\* C15 (validation completeness): a direct call of validate_trip_data on a
\* record in which the set S of required fields is absent or null rejects
\* it naming exactly the fields of S in the listed order when S is not
\* empty; with S empty it rejects the record exactly when a numeric field
\* does not parse, naming the first such field in the listed order.
C15_ValidationCompleteness ==
  (ufn = "validate_trip_data" /\ udone) =>
    LET S == {f \in DOMAIN uarg.damage : uarg.damage[f] \in {"absent", "null"}}
        B == {f \in DOMAIN uarg.damage : uarg.damage[f] = "text"}
        inOrder(set) == SelectSeq(ListedFields, LAMBDA f : f \in set)
    IN IF S # {}
         THEN ~uresult.ok /\ uresult.missing = inOrder(S)
       ELSE IF B # {}
         THEN /\ ~uresult.ok
              /\ uresult.missing = <<>>
              /\ uresult.invalid = Head(inOrder(B))
       ELSE uresult.ok

\* The call on a record without trip_id, with a null drop_lat and a
\* non-numeric pickup_lat has returned, naming trip_id and drop_lat.
C15_Witness ==
  /\ ufn = "validate_trip_data" /\ udone
  /\ uarg.damage["trip_id"] = "absent"
  /\ uarg.damage["drop_lat"] = "null"
  /\ uarg.damage["pickup_lat"] = "text"
  /\ uresult.missing = <<"trip_id", "drop_lat">>

\* ------------------------------------------------- claims on the zone name
\* The answer of the geocoding call that succeeded for message i.
AnswerFor(i) ==
  LET k == CHOOSE k \in DOMAIN geo_calls : geo_calls[k].idx = i /\ geo_calls[k].ok
  IN geo_calls[k].results

\* C16 (unknown-zone fallback): a message whose geocoding call answered
\* with an empty result list is not dropped as an error: its queue publish
\* is issued and the record published carries zone_name "Unknown"; with a
\* non-empty answer the record published carries the label of the first
\* candidate.
C16_UnknownZone ==
  /\ \A i \in 1..Len(eevent) :
       (i < ei /\ OkCall(geo_calls, i)) => Issued(sqs_calls, i) # {}
  /\ \A k \in DOMAIN queue :
       LET answer == AnswerFor(Sent[k].idx)
       IN queue[k]["zone_name"] =
            IF answer = <<>> THEN Str("Unknown") ELSE Str(answer[1])
  /\ epc = "send" =>
       etrip["zone_name"] =
         IF AnswerFor(ei) = <<>> THEN Str("Unknown") ELSE Str(AnswerFor(ei)[1])

\* The queue holds a record with zone_name "Unknown" whose geocoding call
\* had an empty answer, and a record with the first of two candidates.
C16_Witness ==
  \E k, l \in DOMAIN queue :
    /\ AnswerFor(Sent[k].idx) = <<>>
    /\ queue[k]["zone_name"] = Str("Unknown")
    /\ Len(AnswerFor(Sent[l].idx)) = 2
    /\ queue[l]["zone_name"] = Str("Airport Terminal")

\* The put_record calls that succeeded, in the order they were issued.
Sunk == SelectSeq(fh_calls, LAMBDA c : c.ok)

\* The Producer hands every record over with the zone_name of its source
\* row, as the row has it (no key when the file has no such column).
ProducerLeavesZone ==
  \A k \in DOMAIN HandedOrWaiting :
    HandedOrWaiting[k].Data["zone_name"] = BufferedRows[k]["zone_name"]

\* The Producer hands every record over with the text of the zone_name
\* column of its source row without the surrounding quote characters, and
\* with the empty text when the file has no such column.
ProducerCopiesZone ==
  \A k \in DOMAIN HandedOrWaiting :
    HandedOrWaiting[k].Data["zone_name"] =
      CASE BufferedRows[k]["zone_name"] = Absent -> Str("")
        [] BufferedRows[k]["zone_name"] = Str("\"Downtown Plaza\"") ->
             Str("Downtown Plaza")
        [] OTHER -> BufferedRows[k]["zone_name"]

\* Every queued message is the stream record with its zone_name replaced
\* by a label of the geocoding answer or by "Unknown".
EnrichmentSetsZone ==
  \A k \in DOMAIN queue :
    \E z \in {"Unknown"} \cup
              {AnswerFor(Sent[k].idx)[j] : j \in DOMAIN AnswerFor(Sent[k].idx)} :
      queue[k] = With(eevent[Sent[k].idx].data, "zone_name", Str(z))

\* The sink line of a record carries the zone_name of its queue message,
\* and so does its item in the primary store ('' when the message has no
\* zone_name).
FareKeepsZone ==
  /\ \A k \in DOMAIN firehose :
       firehose[k]["zone_name"] = fevent[Sunk[k].idx].data["zone_name"]
  /\ \A it \in table :
       \E i \in 1..Len(fevent) :
         /\ OkCall(ddb_calls, i)
         /\ it.trip_id = fevent[i].data["trip_id"]
         /\ it.zone_name = Get(fevent[i].data["zone_name"], Str(""))

\* C17 (zone set once), as stated: the Producer does not assign zone_name,
\* the Enrichment Stage sets it, and the Fare & Persistence Stage writes
\* the queued value to the store and the sink.
C17_ZoneSetOnce == ProducerLeavesZone /\ EnrichmentSetsZone /\ FareKeepsZone

\* C17 (zone set once), amended: the Producer only copies the zone_name
\* column of the source row, stripped of surrounding quote characters ('' when
\* the column is missing); the Enrichment Stage replaces it by the geocoded
\* label or "Unknown"; the Fare & Persistence Stage writes the queued value
\* to the store and the sink.
C17_ZoneFromEnrichment ==
  ProducerCopiesZone /\ EnrichmentSetsZone /\ FareKeepsZone

\* A record of a row with a quoted zone text was handed to a bulk publish.
C17_Witness ==
  \E k \in DOMAIN Published :
    /\ BufferedRows[k]["zone_name"] = Str("\"Downtown Plaza\"")
    /\ Published[k].Data["zone_name"] = Str("Downtown Plaza")

\* ----------------------------------------------- claims on the two writes
\* C18 (no update after persistence): when a batch delivers a message more
\* than once, no two store writes that succeeded are for the same trip_id
\* and no two lines of the sink carry the same trip_id.
C18_WrittenOnce ==
  /\ \A i, j \in 1..Len(fevent) :
       (i < j /\ OkCall(ddb_calls, i) /\ OkCall(ddb_calls, j))
       => fevent[i].data["trip_id"] # fevent[j].data["trip_id"]
  /\ \A k, l \in DOMAIN firehose :
       k < l => firehose[k]["trip_id"] # firehose[l]["trip_id"]

\* ---------------------------------------------- claims on the configuration
\* An identifier the environment does not give (or gives empty).
Unset(v) == v = Null \/ v = Str("")

\* C19 (configuration error): an invocation of a stage with one of its two
\* identifiers unset has returned status 500 as soon as it has started, and
\* no geocoding call, queue publish, store write or sink write was issued.
C19_ConfigErrorFatal ==
  /\ (/\ fpc \notin {"unloaded", "idle"}
      /\ Unset(DYNAMODB_TABLE_NAME) \/ Unset(FIREHOSE_STREAM_NAME))
     => /\ fpc = "done" /\ fresult.statusCode = 500
        /\ ddb_calls = <<>> /\ fh_calls = <<>>
        /\ table = {} /\ firehose = <<>>
  /\ (/\ epc \notin {"unloaded", "idle"}
      /\ Unset(PLACE_INDEX_NAME) \/ Unset(SQS_QUEUE_URL))
     => /\ epc = "done" /\ eresult.statusCode = 500
        /\ geo_calls = <<>> /\ sqs_calls = <<>> /\ queue = <<>>

\* The Fare & Persistence handler was invoked without a sink stream name on
\* a batch of two well-formed records, and has returned.
C19_Witness ==
  /\ fpc = "done"
  /\ DYNAMODB_TABLE_NAME = Str("configured")
  /\ FIREHOSE_STREAM_NAME = Null
  /\ Len(fevent) = 2
  /\ \A i \in 1..2 : Prepare(fevent[i]).outcome = "ready"
  /\ fresult.statusCode = 500

\* C20 (store before sink): the sink write of a record is issued only once
\* its store write has succeeded; every line of the sink has its item in
\* the store; the item of a successful store write stays in the store, also
\* when the sink write of the record fails; and processed_count, like the
\* processed figure returned, is the number of sink writes that succeeded.
C20_StoreBeforeSink ==
  /\ fpc = "put_record" => OkCall(ddb_calls, fi)
  /\ \A i \in 1..Len(fevent) :
       /\ Issued(fh_calls, i) # {} => OkCall(ddb_calls, i)
       /\ OkCall(ddb_calls, i) =>
            \E it \in table : it.trip_id = fevent[i].data["trip_id"]
  /\ \A k \in DOMAIN firehose :
       \E it \in table :
         /\ it.trip_id = firehose[k]["trip_id"]
         /\ it.total_amount = firehose[k]["total_amount"].n
  /\ Len(firehose) = Len(Sunk)
  /\ (FRunning \/ FReturned) => processed_count = Len(Sunk)
  /\ FReturned => fresult.processed = Len(Sunk)

\* The handler has returned from a batch in which one record was written
\* to the store and failed at the sink, and another was written to both.
C20_Witness ==
  /\ FReturned
  /\ \E i, j \in 1..Len(fevent) :
       /\ OkCall(ddb_calls, i) /\ FailedCall(fh_calls, i)
       /\ OkCall(ddb_calls, j) /\ OkCall(fh_calls, j)
       /\ fevent[i].data["trip_id"] # fevent[j].data["trip_id"]
  /\ Cardinality(table) = 2
  /\ Len(firehose) = 1
  /\ fresult.processed = 1
====
